---- MODULE Spec2Model ----
(***************************************************************************)
(* Selection reconciliation of prosemirror-view (src/selection.js):        *)
(* SelectionReader (domChanged, storeDOMState, readFromDOM), the two       *)
(* pollers (selectionchange listener, timeout polling), selectionToDOM     *)
(* and the node-selection bookkeeping.                                     *)
(*                                                                         *)
(* The document is  doc(paragraph(em("a")), horizontal_rule) :             *)
(*   position 0 before the paragraph, 1 and 2 around the text "a",         *)
(*   3 between the paragraph and the rule, 4 at the end of the document.   *)
(* The rendered tree is  root > [ p > em > text , hr ].                    *)
(***************************************************************************)
EXTENDS Integers, Sequences, FiniteSets

\* ------------------------------------------------------------------ bounds

\* the clock stops at MaxTime (milliseconds since construction)
MaxTime == 150
\* timer handles that may be pending at once
MaxTimers == 2

\* ------------------------------------------------------- program constants

\* readFunc: this.originTime > Date.now() - 50
DebounceMs == 50
\* doPoll: setTimeout(this.pollFunc, 100)
PollMs == 100
\* child.nodeType != 1: only element children are measured
ElementNode == 1
\* the most children the textblock's DOM node has in a layout
MaxChildren == 2

\* how far one step of the clock advances it
TickSteps == {50}

\* ------------------------------------------------------------------ values

Null == "null"
\* this.polling = null
NoTimer == 0
NoPos == 0 - 1
Origins == {"typing"}

\* a selection value: TextSelection has anchor/head, NodeSelection has none
NoSel == [type |-> "none", anchor |-> NoPos, head |-> NoPos, from |-> NoPos, to |-> NoPos]

Min(a, b) == IF a < b THEN a ELSE b
Max(a, b) == IF a < b THEN b ELSE a

TextSelection(anchor, head) ==
  [type |-> "text", anchor |-> anchor, head |-> head,
   from |-> Min(anchor, head), to |-> Max(anchor, head)]

\* size of the node that starts at a position (0 when none starts there)
NodeSizeAt(pos) == CASE pos = 0 -> 3 [] pos = 3 -> 1 [] OTHER -> 0

NodeSelection(pos) ==
  [type |-> "node", anchor |-> NoPos, head |-> NoPos,
   from |-> pos, to |-> pos + NodeSizeAt(pos)]

\* positions whose parent has inline content (inside the paragraph)
TextPositions == {1, 2}
\* positions right before a node that can be selected as a whole
NodePositions == {0, 3}

\* the selections an owner can hold for this document
Selections ==
  {TextSelection(a, h) : a \in TextPositions, h \in TextPositions}
    \cup {NodeSelection(p) : p \in NodePositions}

\* ------------------------------------------------- view tree (docView)

\* view descriptors: the node each owns (Null for the mark descriptor of em)
DescNode(desc) ==
  CASE desc = "docDesc" -> "doc"
    [] desc = "pDesc" -> "paragraph"
    [] desc = "emDesc" -> Null
    [] desc = "textDesc" -> "text"
    [] desc = "hrDesc" -> "horizontal_rule"
    [] OTHER -> Null

DescParent(desc) ==
  CASE desc = "pDesc" -> "docDesc"
    [] desc = "emDesc" -> "pDesc"
    [] desc = "textDesc" -> "emDesc"
    [] desc = "hrDesc" -> "docDesc"
    [] OTHER -> Null

\* position right before the node a descriptor owns
DescPosBefore(desc) ==
  CASE desc = "pDesc" -> 0 [] desc = "textDesc" -> 1 [] desc = "hrDesc" -> 3
    [] OTHER -> NoPos

\* node.isLeaf: the node type allows no content
IsLeaf(node) == node \in {"text", "horizontal_rule"}

\* NodeSelection.isSelectable(node)
IsSelectable(node) == node # Null /\ node # "text"

\* docView.nearestDesc(dom): the descriptor of the closest rendered ancestor
NearestDesc(dom) ==
  CASE dom = "root" -> "docDesc"
    [] dom = "p" -> "pDesc"
    [] dom = "em" -> "emDesc"
    [] dom = "text" -> "textDesc"
    [] dom = "hr" -> "hrDesc"
    [] OTHER -> Null

\* docView.descAt(pos): the descriptor of the node that starts at pos
DescAt(pos) == CASE pos = 0 -> "pDesc" [] pos = 3 -> "hrDesc" [] OTHER -> Null

\* docView.posFromDOM(node, offset)
PosFromDOM(dom, offset) ==
  CASE dom = "root" -> (CASE offset = 0 -> 0 [] offset = 1 -> 3 [] OTHER -> 4)
    [] dom = "p" -> (IF offset = 0 THEN 1 ELSE 2)
    [] dom = "em" -> (IF offset = 0 THEN 1 ELSE 2)
    [] dom = "text" -> (IF offset = 0 THEN 1 ELSE 2)
    [] dom = "hr" -> 3
    [] OTHER -> 0

\* the rendered point the view tree places a document position at
DomFromPos(pos) ==
  CASE pos = 0 -> [node |-> "root", offset |-> 0]
    [] pos = 1 -> [node |-> "text", offset |-> 0]
    [] pos = 2 -> [node |-> "text", offset |-> 1]
    [] pos = 3 -> [node |-> "root", offset |-> 1]
    [] OTHER -> [node |-> "root", offset |-> 2]

\* a native selection: what root.getSelection() reports
DOMSelection(an, ao, fn, fo) ==
  [anchorNode |-> an, anchorOffset |-> ao, focusNode |-> fn, focusOffset |-> fo]

IsCollapsed(domSel) ==
  domSel.anchorNode = domSel.focusNode /\ domSel.anchorOffset = domSel.focusOffset

\* docView.setSelection(anchor, head, root): the native selection it produces
SetSelection(anchor, head) ==
  DOMSelection(DomFromPos(anchor).node, DomFromPos(anchor).offset,
               DomFromPos(head).node, DomFromPos(head).offset)

\* native selections a user gesture can produce
UserSelections ==
  { DOMSelection("text", 1, "text", 1),
    DOMSelection("em", 0, "em", 0),
    DOMSelection("hr", 0, "hr", 0),
    DOMSelection("root", 1, "root", 1),
    DOMSelection("text", 1, "text", 0),
    DOMSelection("root", 0, "root", 2) }

\* ------------------------------------- selection construction (state)

\* Selection.findFrom($pos, dir, textOnly): NoSel when nothing is found
FindFrom(pos, dir, textOnly) ==
  IF pos \in TextPositions THEN TextSelection(pos, pos)
  ELSE IF dir > 0
    THEN CASE pos = 0 -> TextSelection(1, 1)
           [] pos = 3 -> (IF textOnly THEN NoSel ELSE NodeSelection(3))
           [] OTHER -> NoSel
    ELSE CASE pos = 3 -> TextSelection(2, 2)
           [] pos = 4 -> (IF textOnly THEN TextSelection(2, 2) ELSE NodeSelection(3))
           [] OTHER -> NoSel

\* Selection.near($pos, bias)
Near(pos, bias) ==
  IF FindFrom(pos, bias, FALSE) # NoSel THEN FindFrom(pos, bias, FALSE)
  ELSE FindFrom(pos, 0 - bias, FALSE)

\* Selection.between($anchor, $head, bias)
Between(anchor, head, bias) ==
  LET found == Near(head, bias) IN
  IF found.type = "text"
  THEN TextSelection(FindFrom(anchor, IF anchor > found.to THEN -1 ELSE 1, TRUE).anchor,
                     found.head)
  ELSE IF anchor < found.from \/ anchor > found.to
  THEN LET inv == anchor > found.to
           foundAnchor == FindFrom(anchor, IF inv THEN -1 ELSE 1, TRUE)
           foundHead == FindFrom(IF inv THEN found.from ELSE found.to,
                                 IF inv THEN 1 ELSE -1, TRUE)
       IN IF foundAnchor # NoSel /\ foundHead # NoSel
          THEN TextSelection(foundAnchor.anchor, foundHead.head)
          ELSE found
  ELSE found

\* sel.eq(other)
SelEq(a, b) == a.type = b.type /\ a.from = b.from /\ a.to = b.to
                 /\ a.anchor = b.anchor /\ a.head = b.head

\* ------------------------------------------------------------------ state

VARIABLES
  variant,              \* "selectionchange" or "timeout": which poller was built
  gecko,                \* browser.gecko
  now,                  \* Date.now(), milliseconds since construction
  inDOMChange,          \* view.inDOMChange
  hasFocus,             \* view.hasFocus()
  domSel,               \* view.root.getSelection()
  stateSel,             \* view.state.selection
  lastAnchorNode, lastAnchorOffset, lastHeadNode, lastHeadOffset,
  lastSelection,        \* SelectionReader fields
  lastSelectedViewDesc, \* view.lastSelectedViewDesc
  nodeClass,            \* content.classList has "ProseMirror-nodeselection"
  selectedDescs,        \* descriptors whose selectNode ran last (not deselectNode)
  listening, curOrigin, originTime,   \* selectionchange poller fields
  registered,           \* readFunc is a selectionchange listener of document
  polling,              \* timeout poller: the timer handle, or Null
  timers,               \* pending timers: [id, due, origin]
  log,                  \* what the latest handler did (observation only)
  written,              \* no native change since selectionToDOM last wrote
  since,                \* when focus was gained or the poller last reconciled
  attributed,           \* dispatches that carried the origin of the latest poll
  layout                \* where the browser laid the textblock and the cursor out

vars == <<variant, gecko, now, inDOMChange, hasFocus, domSel, stateSel,
          lastAnchorNode, lastAnchorOffset, lastHeadNode, lastHeadOffset,
          lastSelection, lastSelectedViewDesc, nodeClass, selectedDescs,
          listening, curOrigin, originTime, registered, polling, timers,
          log, written, since, attributed, layout>>

\* the observation a handler starts with
NewLog(op) ==
  [op |-> op, reads |-> 0, origin |-> Null, dispatches |-> 0, disp |-> NoSel,
   tag |-> Null, storedFirst |-> FALSE, stored |-> FALSE,
   polls |-> 0, pollOrigin |-> Null,
   calls |-> 0, takeFocus |-> FALSE, writes |-> 0,
   hooks |-> <<>>, overflow |-> FALSE, dir |-> 0, leaves |-> FALSE]

\* the fields a handler can change, as one record, with a fresh observation
State(op) ==
  [hasFocus |-> hasFocus, domSel |-> domSel, stateSel |-> stateSel,
   lastAnchorNode |-> lastAnchorNode, lastAnchorOffset |-> lastAnchorOffset,
   lastHeadNode |-> lastHeadNode, lastHeadOffset |-> lastHeadOffset,
   lastSelection |-> lastSelection, lastSelectedViewDesc |-> lastSelectedViewDesc,
   nodeClass |-> nodeClass, selectedDescs |-> selectedDescs,
   listening |-> listening, curOrigin |-> curOrigin, originTime |-> originTime,
   registered |-> registered, polling |-> polling, timers |-> timers,
   log |-> NewLog(op), written |-> written, since |-> since,
   attributed |-> attributed]

\* the handler's result becomes the next state (never past the timer bound)
Install(s) ==
  /\ ~s.log.overflow
  /\ hasFocus' = s.hasFocus /\ domSel' = s.domSel /\ stateSel' = s.stateSel
  /\ lastAnchorNode' = s.lastAnchorNode /\ lastAnchorOffset' = s.lastAnchorOffset
  /\ lastHeadNode' = s.lastHeadNode /\ lastHeadOffset' = s.lastHeadOffset
  /\ lastSelection' = s.lastSelection
  /\ lastSelectedViewDesc' = s.lastSelectedViewDesc
  /\ nodeClass' = s.nodeClass /\ selectedDescs' = s.selectedDescs
  /\ listening' = s.listening /\ curOrigin' = s.curOrigin
  /\ originTime' = s.originTime /\ registered' = s.registered
  /\ polling' = s.polling /\ timers' = s.timers
  /\ log' = s.log /\ written' = s.written /\ since' = s.since
  /\ attributed' = s.attributed
  /\ UNCHANGED <<variant, gecko, now, inDOMChange, layout>>

\* ------------------------------------------------------- SelectionReader

\* domChanged(): the native selection differs from the stored snapshot
domChanged(s) ==
  \/ s.domSel.anchorNode # s.lastAnchorNode
  \/ s.domSel.anchorOffset # s.lastAnchorOffset
  \/ s.domSel.focusNode # s.lastHeadNode
  \/ s.domSel.focusOffset # s.lastHeadOffset

\* storeDOMState that records the selection but not the focus offset
storeDOMState_noHeadOffset(s, selection) ==
  [s EXCEPT !.lastAnchorNode = s.domSel.anchorNode,
            !.lastAnchorOffset = s.domSel.anchorOffset,
            !.lastHeadNode = s.domSel.focusNode,
            !.lastSelection = selection]

\* storeDOMState(selection)
storeDOMState(s, selection) ==
  [s EXCEPT !.lastAnchorNode = s.domSel.anchorNode,
            !.lastAnchorOffset = s.domSel.anchorOffset,
            !.lastHeadNode = s.domSel.focusNode,
            !.lastHeadOffset = s.domSel.focusOffset,
            !.lastSelection = selection]

\* ---------------------------------------------------------------- timers

\* the handle setTimeout returns: one no pending timer and no held handle has
FreshIds(s) == {i \in 1..MaxTimers : i # s.polling /\ \A t \in s.timers : t.id # i}

\* this.polling = setTimeout(doPoll.bind(this, origin), delay)
setTimeout(s, origin, delay) ==
  IF FreshIds(s) = {} THEN [s EXCEPT !.log.overflow = TRUE]
  ELSE LET id == CHOOSE i \in FreshIds(s) : \A j \in FreshIds(s) : i <= j IN
       [s EXCEPT !.timers = @ \cup {[id |-> id, due |-> now + delay, origin |-> origin]},
                 !.polling = id]

\* clearTimeout(id): no effect when no such timer is pending
clearTimeout(s, id) == [s EXCEPT !.timers = {t \in @ : t.id # id}]

\* ---------------------------------------------------------------- pollers

\* poller.poll(origin), both variants
poll(s, origin) ==
  LET c == [s EXCEPT !.log.polls = @ + 1, !.log.pollOrigin = origin] IN
  IF variant = "selectionchange"
  THEN [c EXCEPT !.curOrigin = origin, !.originTime = now, !.attributed = "none"]
  ELSE setTimeout(clearTimeout(c, c.polling), origin, 0)

\* poller.receivedFocus(), both variants
receivedFocus(s) ==
  IF variant = "selectionchange"
  THEN IF ~s.listening
       THEN [s EXCEPT !.registered = TRUE, !.listening = TRUE]
       ELSE s
  ELSE IF s.polling = NoTimer THEN poll(s, Null) ELSE s

\* poller.lostFocus(), both variants
lostFocus(s) ==
  IF variant = "selectionchange"
  THEN IF s.listening
       THEN [s EXCEPT !.registered = FALSE, !.listening = FALSE]
       ELSE s
  ELSE [clearTimeout(s, s.polling) EXCEPT !.polling = NoTimer]

\* the surface's "focus" event: the listener the constructor registered
focusEvent(s) ==
  receivedFocus([s EXCEPT !.hasFocus = TRUE,
                          !.since = IF s.hasFocus \/ variant # "timeout" THEN @ ELSE now])

\* the surface's "blur" event
blurEvent(s) == lostFocus([s EXCEPT !.hasFocus = FALSE])

\* ------------------------------------------------ node selection marking

\* clearNodeSelection(view)
clearNodeSelection(s) ==
  IF s.lastSelectedViewDesc # Null
  THEN [s EXCEPT !.nodeClass = FALSE,
                 !.selectedDescs = @ \ {s.lastSelectedViewDesc},
                 !.log.hooks = Append(@, <<"deselectNode", s.lastSelectedViewDesc>>),
                 !.lastSelectedViewDesc = Null]
  ELSE s

\* syncNodeSelection that marks the new descriptor without clearing the old one
syncNodeSelection_noClear(s, sel) ==
  IF sel.type = "node"
  THEN LET desc == DescAt(sel.from) IN
       IF desc # s.lastSelectedViewDesc
       THEN LET m == IF desc # Null
                     THEN [s EXCEPT !.nodeClass = TRUE,
                                    !.selectedDescs = @ \cup {desc},
                                    !.log.hooks = Append(@, <<"selectNode", desc>>)]
                     ELSE s
            IN [m EXCEPT !.lastSelectedViewDesc = desc]
       ELSE s
  ELSE clearNodeSelection(s)

\* syncNodeSelection(view, sel)
syncNodeSelection(s, sel) ==
  IF sel.type = "node"
  THEN LET desc == DescAt(sel.from) IN
       IF desc # s.lastSelectedViewDesc
       THEN LET c == clearNodeSelection(s)
                m == IF desc # Null
                     THEN [c EXCEPT !.nodeClass = TRUE,
                                    !.selectedDescs = @ \cup {desc},
                                    !.log.hooks = Append(@, <<"selectNode", desc>>)]
                     ELSE c
            IN [m EXCEPT !.lastSelectedViewDesc = desc]
       ELSE s
  ELSE clearNodeSelection(s)

\* ---------------------------------------------------------- selectionToDOM

\* selectionToDOM that writes the native selection but does not record it
selectionToDOM_noStore(s, sel, takeFocus) ==
  LET n == [syncNodeSelection(s, sel) EXCEPT !.log.calls = @ + 1,
                                      !.log.takeFocus = takeFocus]
      f == IF ~n.hasFocus /\ takeFocus /\ gecko THEN focusEvent(n) ELSE n
      anchor == IF sel.anchor = NoPos THEN sel.from ELSE sel.anchor
      head == IF sel.anchor = NoPos THEN sel.to ELSE sel.head
  IN IF ~n.hasFocus /\ ~takeFocus THEN n
     ELSE IF SelEq(sel, f.lastSelection) /\ ~domChanged(f) THEN f
     ELSE [f EXCEPT !.domSel = SetSelection(anchor, head),
                    !.log.writes = @ + 1,
                    !.written = TRUE]

\* selectionToDOM that records the selection although it returns without focus
selectionToDOM_storeUnfocused(s, sel, takeFocus) ==
  LET n == [syncNodeSelection(s, sel) EXCEPT !.log.calls = @ + 1,
                                      !.log.takeFocus = takeFocus]
      f == IF ~n.hasFocus /\ takeFocus /\ gecko THEN focusEvent(n) ELSE n
      anchor == IF sel.anchor = NoPos THEN sel.from ELSE sel.anchor
      head == IF sel.anchor = NoPos THEN sel.to ELSE sel.head
  IN IF ~n.hasFocus /\ ~takeFocus THEN storeDOMState(n, sel)
     ELSE IF SelEq(sel, f.lastSelection) /\ ~domChanged(f) THEN f
     ELSE storeDOMState([f EXCEPT !.domSel = SetSelection(anchor, head),
                                  !.log.writes = @ + 1,
                                  !.written = TRUE], sel)

\* selectionToDOM that tests for focus before it syncs the node selection
selectionToDOM_focusFirst(s, sel, takeFocus) ==
  LET c == [s EXCEPT !.log.calls = @ + 1, !.log.takeFocus = takeFocus]
      n == syncNodeSelection(c, sel)
      f == IF ~n.hasFocus /\ takeFocus /\ gecko THEN focusEvent(n) ELSE n
      anchor == IF sel.anchor = NoPos THEN sel.from ELSE sel.anchor
      head == IF sel.anchor = NoPos THEN sel.to ELSE sel.head
  IN IF ~s.hasFocus /\ ~takeFocus THEN c
     ELSE IF SelEq(sel, f.lastSelection) /\ ~domChanged(f) THEN f
     ELSE storeDOMState([f EXCEPT !.domSel = SetSelection(anchor, head),
                                  !.log.writes = @ + 1,
                                  !.written = TRUE], sel)

\* selectionToDOM(view, sel, takeFocus)
selectionToDOM(s, sel, takeFocus) ==
  LET n == [syncNodeSelection(s, sel) EXCEPT !.log.calls = @ + 1,
                                      !.log.takeFocus = takeFocus]
      f == IF ~n.hasFocus /\ takeFocus /\ gecko THEN focusEvent(n) ELSE n
      anchor == IF sel.anchor = NoPos THEN sel.from ELSE sel.anchor
      head == IF sel.anchor = NoPos THEN sel.to ELSE sel.head
  IN IF ~n.hasFocus /\ ~takeFocus THEN n
     ELSE IF SelEq(sel, f.lastSelection) /\ ~domChanged(f) THEN f
     ELSE storeDOMState([f EXCEPT !.domSel = SetSelection(anchor, head),
                                  !.log.writes = @ + 1,
                                  !.written = TRUE], sel)

\* ---------------------------------------------------------------- owner

\* what the owner's onAction does with a dispatched selection
Reactions == {"none", "apply", "poll", "blur"}
\* an owner that ignores the action, or applies it and updates the view
OwnerReactions == {"none", "apply"}

\* view.props.onAction(selection.action(origin && {origin}))
onAction(s, selection, origin, react) ==
  LET d == [s EXCEPT !.log.dispatches = @ + 1, !.log.disp = selection,
                     !.log.tag = origin, !.log.storedFirst = s.log.stored]
  IN CASE react = "apply" ->
            selectionToDOM([d EXCEPT !.stateSel = selection], selection, FALSE)
       [] react = "poll" -> poll(d, "typing")
       [] react = "blur" -> blurEvent(d)
       [] OTHER -> d

\* ---------------------------------------------------------- readFromDOM

\* while (nearestDesc && !nearestDesc.node) nearestDesc = nearestDesc.parent
RECURSIVE nodeOwner(_)
nodeOwner(desc) ==
  IF desc = Null \/ DescNode(desc) # Null THEN desc ELSE nodeOwner(DescParent(desc))

\* selectionFromDOM that does not ask whether the node is a leaf
selectionFromDOM_noLeafTest(s) ==
  LET domNode == s.domSel.focusNode
      head == PosFromDOM(domNode, s.domSel.focusOffset)
      anchor == IF IsCollapsed(s.domSel) THEN head
                ELSE PosFromDOM(s.domSel.anchorNode, s.domSel.anchorOffset)
      nearestDesc == nodeOwner(NearestDesc(domNode))
      bias == IF s.stateSel.head # NoPos /\ s.stateSel.head < head THEN 1 ELSE -1
  IN IF IsCollapsed(s.domSel) /\ nearestDesc # Null
          /\ IsSelectable(DescNode(nearestDesc))
     THEN NodeSelection(head)
     ELSE Between(anchor, head, bias)

\* selectionFromDOM that resolves the anchor from the focus node
selectionFromDOM_anchorIsHead(s) ==
  LET domNode == s.domSel.focusNode
      head == PosFromDOM(domNode, s.domSel.focusOffset)
      anchor == head
      nearestDesc == nodeOwner(NearestDesc(domNode))
      bias == IF s.stateSel.head # NoPos /\ s.stateSel.head < head THEN 1 ELSE -1
  IN IF IsCollapsed(s.domSel) /\ nearestDesc # Null
          /\ IsLeaf(DescNode(nearestDesc)) /\ IsSelectable(DescNode(nearestDesc))
     THEN NodeSelection(head)
     ELSE Between(anchor, head, bias)

\* the selection readFromDOM builds from the native selection
selectionFromDOM(s) ==
  LET domNode == s.domSel.focusNode
      head == PosFromDOM(domNode, s.domSel.focusOffset)
      anchor == IF IsCollapsed(s.domSel) THEN head
                ELSE PosFromDOM(s.domSel.anchorNode, s.domSel.anchorOffset)
      nearestDesc == nodeOwner(NearestDesc(domNode))
      bias == IF s.stateSel.head # NoPos /\ s.stateSel.head < head THEN 1 ELSE -1
  IN IF IsCollapsed(s.domSel) /\ nearestDesc # Null
          /\ IsLeaf(DescNode(nearestDesc)) /\ IsSelectable(DescNode(nearestDesc))
     THEN NodeSelection(head)
     ELSE Between(anchor, head, bias)

\* the resolved positions readFromDOM compares the built selection with
resolvedHead(s) == PosFromDOM(s.domSel.focusNode, s.domSel.focusOffset)
resolvedAnchor(s) ==
  IF IsCollapsed(s.domSel) THEN resolvedHead(s)
  ELSE PosFromDOM(s.domSel.anchorNode, s.domSel.anchorOffset)

\* readFromDOM that does not look at view.inDOMChange
readFromDOM_noDOMChangeGuard(s, origin, react) ==
  LET r == [s EXCEPT !.log.reads = @ + 1, !.log.origin = origin] IN
  IF ~r.hasFocus \/ ~domChanged(r) THEN r
  ELSE LET selection == selectionFromDOM(r)
           k == IF resolvedHead(r) = selection.head
                     /\ resolvedAnchor(r) = selection.anchor
                THEN [storeDOMState(r, selection) EXCEPT !.log.stored = TRUE]
                ELSE r
       IN onAction(k, selection, origin, react)

\* readFromDOM that records the selection only after the owner was notified
readFromDOM_storeAfter(s, origin, react) ==
  LET r == [s EXCEPT !.log.reads = @ + 1, !.log.origin = origin] IN
  IF ~r.hasFocus \/ inDOMChange \/ ~domChanged(r) THEN r
  ELSE LET selection == selectionFromDOM(r)
           k == onAction(r, selection, origin, react)
       IN IF resolvedHead(r) = selection.head /\ resolvedAnchor(r) = selection.anchor
          THEN [storeDOMState(k, selection) EXCEPT !.log.stored = TRUE]
          ELSE k

\* readFromDOM that records every selection it builds
readFromDOM_storeAlways(s, origin, react) ==
  LET r == [s EXCEPT !.log.reads = @ + 1, !.log.origin = origin] IN
  IF ~r.hasFocus \/ inDOMChange \/ ~domChanged(r) THEN r
  ELSE LET selection == selectionFromDOM(r)
           k == [storeDOMState(r, selection) EXCEPT !.log.stored = TRUE]
       IN onAction(k, selection, origin, react)

\* readFromDOM(origin)
readFromDOM(s, origin, react) ==
  LET r == [s EXCEPT !.log.reads = @ + 1, !.log.origin = origin] IN
  IF ~r.hasFocus \/ inDOMChange \/ ~domChanged(r) THEN r
  ELSE LET selection == selectionFromDOM(r)
           k == IF resolvedHead(r) = selection.head
                     /\ resolvedAnchor(r) = selection.anchor
                THEN [storeDOMState(r, selection) EXCEPT !.log.stored = TRUE]
                ELSE r
       IN onAction(k, selection, origin, react)

\* a dispatch that carried the origin of the latest poll is counted, until the
\* next poll (selectionchange poller only)
attribute(r) ==
  IF r.log.dispatches = 1 /\ r.log.tag # Null /\ r.log.polls = 0
  THEN [r EXCEPT !.attributed = IF @ = "none" THEN "once" ELSE "again"]
  ELSE r

\* readFunc that passes the recorded origin however old it is
readFunc_noWindow(s, react) == attribute(readFromDOM(s, s.curOrigin, react))

\* readFunc that passes the recorded origin once and then forgets it
readFunc_once(s, react) ==
  LET origin == IF s.originTime > now - DebounceMs THEN s.curOrigin ELSE Null
      r == attribute(readFromDOM(s, origin, react))
  IN IF r.log.dispatches = 1 /\ r.log.polls = 0 THEN [r EXCEPT !.curOrigin = Null]
     ELSE r

\* readFunc of the selectionchange poller
readFunc(s, react) ==
  attribute(readFromDOM(s,
                        IF s.originTime > now - DebounceMs THEN s.curOrigin ELSE Null,
                        react))

\* doPoll that reschedules itself with the origin it was given
doPoll_keepOrigin(s, origin, react) ==
  IF s.hasFocus
  THEN setTimeout(readFromDOM([s EXCEPT !.since = now], origin, react), origin, PollMs)
  ELSE [s EXCEPT !.polling = NoTimer]

\* doPoll that reconciles but does not schedule the next round
doPoll_noReschedule(s, origin, react) ==
  IF s.hasFocus
  THEN [readFromDOM([s EXCEPT !.since = now], origin, react) EXCEPT !.polling = NoTimer]
  ELSE [s EXCEPT !.polling = NoTimer]

\* doPoll that does not ask whether the surface has focus
doPoll_noFocusTest(s, origin, react) ==
  setTimeout(readFromDOM([s EXCEPT !.since = now], origin, react), Null, PollMs)

\* doPoll(origin) of the timeout poller
doPoll(s, origin, react) ==
  IF s.hasFocus
  THEN setTimeout(readFromDOM([s EXCEPT !.since = now], origin, react), Null, PollMs)
  ELSE [s EXCEPT !.polling = NoTimer]

\* ------------------------------------------- verticalMotionLeavesTextblock

\* $pos.depth in this document: 1 inside the paragraph, 0 at the top level
Depth(pos) == IF pos \in TextPositions THEN 1 ELSE 0

\* vertical pixel coordinates, and the boxes and cursor rectangles on them
Edges == {0, 1}
Boxes == {[top |-> a, bottom |-> b] : a \in Edges, b \in Edges} \ {[top |-> 1, bottom |-> 0]}
\* what getClientRects() can return for one child: none, one or two boxes
BoxLists ==
  {<<>>} \cup {<<b>> : b \in Boxes} \cup {<<b, c>> : b \in Boxes, c \in Boxes}
\* a child of the textblock's DOM node: an element, or a text node (nodeType 3)
\* whose own rectangles, one line at most here, the scan must not look at
Children ==
  {[nodeType |-> ElementNode, boxes |-> bs] : bs \in BoxLists}
    \cup {[nodeType |-> 3, boxes |-> <<b>>] : b \in Boxes}
ChildLists ==
  UNION {[1..n -> Children] : n \in 0..MaxChildren}
\* a layout: the children of the paragraph's DOM node, and coordsAtPos for the
\* positions inside the paragraph
Layouts ==
  {[children |-> cs, coords |-> co] :
     cs \in ChildLists, co \in [TextPositions -> Boxes]}
\* the paragraph on one line, with the cursor on that line
SingleLine ==
  [children |-> <<[nodeType |-> ElementNode, boxes |-> <<[top |-> 0, bottom |-> 1]>>]>>,
   coords |-> [pos \in TextPositions |-> [top |-> 0, bottom |-> 1]]]
\* the motions asked about: up and down
Directions == {0 - 1, 1}

\* the far side test that counts a box touching the cursor's edge as beyond it
farSide_touching(dir, box, coords) ==
  IF dir < 0 THEN box.bottom <= coords.top ELSE box.top >= coords.bottom

\* dir < 0 ? box.bottom < coords.top : box.top > coords.bottom
farSide(dir, box, coords) ==
  IF dir < 0 THEN box.bottom < coords.top ELSE box.top > coords.bottom

\* for (let i = 0; i < boxes.length; i++): TRUE when the loop runs to its end
RECURSIVE scanBoxes(_, _, _, _)
scanBoxes(boxes, i, dir, coords) ==
  IF i > Len(boxes) THEN TRUE
  ELSE IF farSide(dir, boxes[i], coords) THEN FALSE
  ELSE scanBoxes(boxes, i + 1, dir, coords)

\* the scan that also measures children that are no elements
scanChildren_everyChild(children, k, dir, coords) ==
  \A j \in k..Len(children) : scanBoxes(children[j].boxes, 1, dir, coords)

\* for (let child = dom.firstChild; child; child = child.nextSibling)
RECURSIVE scanChildren(_, _, _, _)
scanChildren(children, k, dir, coords) ==
  IF k > Len(children) THEN TRUE
  ELSE IF children[k].nodeType # ElementNode
       THEN scanChildren(children, k + 1, dir, coords)
  ELSE IF ~scanBoxes(children[k].boxes, 1, dir, coords) THEN FALSE
  ELSE scanChildren(children, k + 1, dir, coords)

\* verticalMotionLeavesTextblock(view, dir)
verticalMotionLeavesTextblock(s, dir) ==
  LET pos == IF dir < 0 THEN s.stateSel.from ELSE s.stateSel.to IN
  IF Depth(pos) = 0 THEN FALSE
  ELSE scanChildren(layout.children, 1, dir, layout.coords[pos])

\* ------------------------------------------------------------------ Init

InitView(variants, sels, layouts) ==
  /\ variant \in variants
  /\ gecko = (variant = "timeout")
  /\ now = 0
  /\ inDOMChange = FALSE
  /\ hasFocus = FALSE
  /\ domSel = DOMSelection("text", 0, "text", 0)
  /\ stateSel \in sels
  /\ lastAnchorNode = Null /\ lastAnchorOffset = NoPos
  /\ lastHeadNode = Null /\ lastHeadOffset = NoPos
  /\ lastSelection = stateSel
  /\ lastSelectedViewDesc = Null
  /\ nodeClass = FALSE
  /\ selectedDescs = {}
  /\ listening = FALSE /\ curOrigin = Null /\ originTime = 0
  /\ registered = FALSE
  /\ polling = NoTimer
  /\ timers = {}
  /\ log = NewLog("constructor")
  /\ written = FALSE
  /\ since = 0
  /\ attributed = "none"
  /\ layout \in layouts

\* a new view on the document, the cursor at the start of the paragraph
Init == InitView({"selectionchange", "timeout"}, {TextSelection(1, 1)}, {SingleLine})

\* --------------------------------------------------------------- actions

\* the surface gains focus: the "focus" listener runs receivedFocus
Focus == Install(focusEvent(State("focus")))

\* the surface loses focus: the "blur" listener runs lostFocus
Blur == Install(blurEvent(State("blur")))

\* SelectionReader.poll(origin), called by the view's input handlers
Poll ==
  \E origin \in Origins \cup {Null} : Install(poll(State("poll"), origin))

\* SelectionReader.readFromDOM(origin), called directly
ReadFromDOM(reacts) ==
  \E origin \in Origins \cup {Null}, react \in reacts :
    Install(readFromDOM(State("readFromDOM"), origin, react))

\* the document fires "selectionchange" and the registered readFunc runs
SelectionChange(reacts) ==
  /\ registered
  /\ \E react \in reacts : Install(readFunc(State("selectionchange"), react))

\* a pending timer comes due and runs doPoll with its bound origin
TimerFire(reacts) ==
  \E t \in timers, react \in reacts :
    /\ t.due <= now
    /\ Install(doPoll([State("timer") EXCEPT !.timers = @ \ {t}], t.origin, react))

\* the owner installs a new state: selectionToDOM(view, state.selection, takeFocus)
UpdateState(sels) ==
  \E sel \in sels, takeFocus \in BOOLEAN :
    Install(selectionToDOM([State("selectionToDOM") EXCEPT !.stateSel = sel],
                           sel, takeFocus))

\* the user (or the browser) moves the native selection
NativeChange(gestures) ==
  \E ns \in gestures :
    /\ ns # domSel
    /\ Install([State("native") EXCEPT !.domSel = ns, !.written = FALSE])

\* a programmatic document mutation starts
BeginDOMChange ==
  /\ ~inDOMChange
  /\ inDOMChange' = TRUE
  /\ log' = NewLog("beginDOMChange")
  /\ UNCHANGED <<variant, gecko, now, hasFocus, domSel, stateSel,
                 lastAnchorNode, lastAnchorOffset, lastHeadNode, lastHeadOffset,
                 lastSelection, lastSelectedViewDesc, nodeClass, selectedDescs,
                 listening, curOrigin, originTime, registered, polling, timers,
                 written, since, attributed, layout>>

\* the programmatic document mutation ends
EndDOMChange ==
  /\ inDOMChange
  /\ inDOMChange' = FALSE
  /\ log' = NewLog("endDOMChange")
  /\ UNCHANGED <<variant, gecko, now, hasFocus, domSel, stateSel,
                 lastAnchorNode, lastAnchorOffset, lastHeadNode, lastHeadOffset,
                 lastSelection, lastSelectedViewDesc, nodeClass, selectedDescs,
                 listening, curOrigin, originTime, registered, polling, timers,
                 written, since, attributed, layout>>

\* a vertical arrow key is handled: verticalMotionLeavesTextblock(view, dir)
VerticalMotion ==
  \E dir \in Directions :
    LET s == State("verticalMotion") IN
    Install([s EXCEPT !.log.dir = dir,
                      !.log.leaves = verticalMotionLeavesTextblock(s, dir)])

\* time passes; a timer that is due runs before the clock moves past it
Tick ==
  \E d \in TickSteps :
    /\ now + d <= MaxTime
    /\ \A t \in timers : t.due >= now + d
    /\ now' = now + d
    /\ log' = NewLog("tick")
    /\ UNCHANGED <<variant, gecko, inDOMChange, hasFocus, domSel, stateSel,
                   lastAnchorNode, lastAnchorOffset, lastHeadNode, lastHeadOffset,
                   lastSelection, lastSelectedViewDesc, nodeClass, selectedDescs,
                   listening, curOrigin, originTime, registered, polling, timers,
                   written, since, attributed, layout>>

\* the reconciler under every selection and gesture, within one instant of
\* the clock, with an owner that ignores or applies what is dispatched
Next ==
  \/ Focus
  \/ Blur
  \/ Poll
  \/ ReadFromDOM(OwnerReactions)
  \/ SelectionChange(OwnerReactions)
  \/ TimerFire(OwnerReactions)
  \/ UpdateState(Selections)
  \/ NativeChange(UserSelections)
  \/ BeginDOMChange
  \/ EndDOMChange

Spec == Init /\ [][Next]_vars

\* the inputs of the specification in which the clock runs
FewSelections == {TextSelection(1, 1)}
FewGestures == {DOMSelection("text", 1, "text", 1), DOMSelection("root", 1, "root", 1)}

\* both pollers over time, with an owner that may also re-enter the poller
NextPollers ==
  \/ Focus
  \/ Blur
  \/ Poll
  \/ ReadFromDOM(OwnerReactions)
  \/ SelectionChange(Reactions)
  \/ TimerFire(Reactions)
  \/ UpdateState(FewSelections)
  \/ NativeChange(FewGestures)
  \/ Tick

SpecPollers == Init /\ [][NextPollers]_vars

\* the selections the probe is asked about: a range and a cursor inside the
\* paragraph, and the rule selected as a node
ProbeSelections == {TextSelection(1, 2), TextSelection(2, 2), NodeSelection(3)}

\* the probe alone, for every layout of the paragraph
InitProbe == InitView({"selectionchange"}, ProbeSelections, Layouts)
SpecProbe == InitProbe /\ [][VerticalMotion]_vars

\* ------------------------------------------------------------- properties

\* the reader's snapshot and last known selection are the same in both states
SnapshotUnchanged ==
  UNCHANGED <<lastAnchorNode, lastAnchorOffset, lastHeadNode, lastHeadOffset,
              lastSelection>>

\* the current state as the handlers see it
Here == State(log.op)

\* C1: on a focused surface, selectionToDOM(S) with S other than the last known
\* selection calls setSelection exactly once, and a second selectionToDOM(S)
\* right after it calls setSelection not at all and leaves the native selection,
\* the snapshot and the last known selection as they are.
C1_Idempotent ==
  [][ /\ (hasFocus /\ log'.op = "selectionToDOM" /\ ~SelEq(stateSel', lastSelection))
          => log'.writes = 1
      /\ (hasFocus /\ log.op = "selectionToDOM" /\ log.writes = 1
            /\ log'.op = "selectionToDOM" /\ stateSel' = stateSel)
          => (log'.writes = 0 /\ domSel' = domSel /\ SnapshotUnchanged) ]_vars

\* a selectionToDOM call on a focused surface that found the selection it was
\* given already written and recorded, and did nothing
C1_Witness ==
  /\ log.op = "selectionToDOM" /\ log.calls = 1 /\ log.writes = 0
  /\ hasFocus /\ written /\ lastSelection = stateSel

\* C2: when readFromDOM stores the selection it built (anchor and head equal the
\* resolved positions) and dispatches it, a selectionToDOM with that selection,
\* made by the owner inside the dispatch or as the next step, does not call
\* setSelection and leaves the native selection alone.
C2_NoWriteBack ==
  [][ /\ (log'.reads = 1 /\ log'.stored /\ log'.dispatches = 1 /\ log'.calls = 1)
          => (log'.writes = 0 /\ domSel' = domSel)
      /\ (log.reads = 1 /\ log.stored /\ log.dispatches = 1 /\ log.calls = 0
            /\ log'.op = "selectionToDOM" /\ stateSel' = log.disp)
          => (log'.writes = 0 /\ domSel' = domSel) ]_vars

\* a read that stored and dispatched a selection, whose owner applied it inside
\* the dispatch, without a native write
C2_Witness ==
  /\ log.reads = 1 /\ log.stored /\ log.dispatches = 1
  /\ log.calls = 1 /\ log.writes = 0 /\ stateSel = log.disp

\* C3: from a write by selectionToDOM until the next native change made by
\* anything else, domChanged() is false and no readFromDOM, whether the timer,
\* the selectionchange listener or a direct call runs it, dispatches anything.
C3_NoReadBack ==
  [][ written => /\ ~domChanged(Here)
                 /\ (log'.reads > 0 => log'.dispatches = 0) ]_vars

\* the poll timer ran readFromDOM on a focused surface after a write, and it
\* dispatched nothing
C3_Witness ==
  /\ written /\ hasFocus /\ ~inDOMChange
  /\ log.op = "timer" /\ log.reads = 1 /\ log.dispatches = 0

\* C4: after selectionToDOM(S) wrote a text selection S on a focused surface that
\* is not in a DOM change, the selection readFromDOM builds from the native
\* selection (its guard set aside) has S's anchor and S's head.
C4_RoundTrip ==
  (log.op = "selectionToDOM" /\ log.writes = 1 /\ stateSel.type = "text"
     /\ hasFocus /\ ~inDOMChange)
    => /\ selectionFromDOM(Here).anchor = stateSel.anchor
       /\ selectionFromDOM(Here).head = stateSel.head

\* selectionToDOM wrote a backward text selection on a focused surface
C4_Witness ==
  /\ log.op = "selectionToDOM" /\ log.writes = 1 /\ hasFocus /\ ~inDOMChange
  /\ stateSel = TextSelection(2, 1)
  /\ selectionFromDOM(Here) = TextSelection(2, 1)

\* C5 as stated: a selectionchange notification calls readFromDOM with the origin
\* of the latest poll when at most 50 ms have passed since that poll, and with a
\* null origin otherwise.
C5_WindowInclusive ==
  [][ log'.op = "selectionchange"
        => /\ log'.reads = 1
           /\ log'.origin = IF now - originTime <= DebounceMs THEN curOrigin ELSE Null
    ]_vars

\* C5: a selectionchange notification calls readFromDOM once, with the origin of
\* the latest poll when less than 50 ms have passed since that poll, and with a
\* null origin when 50 ms or more have passed or poll was never called.
C5_Window ==
  [][ log'.op = "selectionchange"
        => /\ log'.reads = 1
           /\ log'.origin = IF now - originTime < DebounceMs THEN curOrigin ELSE Null
    ]_vars

\* a notification exactly 50 ms after poll("typing") was reconciled with a null
\* origin
C5_Witness ==
  /\ log.op = "selectionchange" /\ log.reads = 1 /\ log.origin = Null
  /\ curOrigin = "typing" /\ now - originTime = DebounceMs

\* C6: in the timeout variant, while the surface keeps the focus it gained, never
\* more than 100 ms pass since the focus was gained or the poller last called
\* readFromDOM, whatever poll calls come in between.
C6_Cadence ==
  (variant = "timeout" /\ hasFocus) => now - since <= PollMs

\* the recurring timer called readFromDOM on a focused surface 100 ms or more
\* after construction
C6_Witness ==
  /\ variant = "timeout" /\ hasFocus /\ log.op = "timer" /\ log.reads = 1
  /\ log.origin = Null /\ since = now /\ now >= PollMs

\* C7: while the surface is without focus, no listener is registered for
\* selectionchange, no step other than a direct readFromDOM call reaches
\* readFromDOM, and a timer that fires schedules no further timer.
C7_NoReadAfterBlur ==
  [][ ~hasFocus
        => /\ ~registered
           /\ (log'.op # "readFromDOM" => log'.reads = 0)
           /\ (log'.op = "timer" => (timers' \subseteq timers /\ polling' = NoTimer))
    ]_vars

\* a timer scheduled by poll fired on a surface without focus: nothing was read
\* and nothing rescheduled
C7_Witness ==
  /\ ~hasFocus /\ log.op = "timer" /\ log.reads = 0
  /\ polling = NoTimer /\ timers = {} /\ domChanged(Here)

\* descriptors of the hooks of one kind in the latest handler's hook calls
Hooked(kind) == {log.hooks[i][2] : i \in {j \in 1..Len(log.hooks) : log.hooks[j][1] = kind}}

\* C8: at most one descriptor is marked selected, it is lastSelectedViewDesc, the
\* presentation class is set exactly when there is one, a handler that moves the
\* mark runs the old descriptor's deselectNode before the new one's selectNode,
\* and after selectionToDOM with a selection that is no node selection no
\* descriptor is marked.
C8_Exclusive ==
  /\ Cardinality(selectedDescs) <= 1
  /\ selectedDescs = (IF lastSelectedViewDesc = Null THEN {} ELSE {lastSelectedViewDesc})
  /\ nodeClass <=> (selectedDescs # {})
  /\ \A i \in 1..Len(log.hooks), j \in 1..Len(log.hooks) :
       (log.hooks[i][1] = "selectNode" /\ log.hooks[j][1] = "deselectNode") => j < i
  /\ (log.calls > 0 /\ stateSel.type # "node") => selectedDescs = {}

\* the mark moved from the paragraph to the rule: deselectNode, then selectNode
C8_Witness ==
  /\ log.hooks = << <<"deselectNode", "pDesc">>, <<"selectNode", "hrDesc">> >>
  /\ selectedDescs = {"hrDesc"} /\ nodeClass

\* C9: what readFromDOM dispatches is the node selection of the leaf when the
\* native selection is collapsed and the nearest descriptor with a node, at or
\* above the focus node, owns a selectable leaf; in every other case it is
\* Selection.between of the resolved anchor and head.
C9_Classification ==
  [][ log'.dispatches = 1
        => LET owner == nodeOwner(NearestDesc(domSel.focusNode))
               bias == IF stateSel.head # NoPos /\ stateSel.head < resolvedHead(Here)
                       THEN 1 ELSE -1
           IN IF /\ IsCollapsed(domSel)
                 /\ owner # Null
                 /\ IsLeaf(DescNode(owner))
                 /\ IsSelectable(DescNode(owner))
              THEN log'.disp = NodeSelection(DescPosBefore(owner))
              ELSE log'.disp = Between(resolvedAnchor(Here), resolvedHead(Here), bias)
    ]_vars

\* a cursor inside the rule was dispatched as the node selection of the rule
C9_Witness ==
  /\ log.dispatches = 1 /\ log.calls = 0
  /\ domSel = DOMSelection("hr", 0, "hr", 0) /\ log.disp = NodeSelection(3)

\* C10: a readFromDOM call made without focus, during a DOM change, or with an
\* unchanged native selection dispatches nothing and leaves the snapshot and the
\* last known selection as they are.
C10_Guard ==
  [][ (log'.reads = 1 /\ (~hasFocus \/ inDOMChange \/ ~domChanged(Here)))
        => (log'.dispatches = 0 /\ SnapshotUnchanged) ]_vars

\* readFromDOM ran on a focused surface with a changed native selection during a
\* DOM change, and dispatched nothing
C10_Witness ==
  /\ log.reads = 1 /\ log.dispatches = 0
  /\ hasFocus /\ inDOMChange /\ domChanged(Here)

\* C11: in the timeout variant a poll(origin) made in a turn of its own leaves
\* exactly one timer pending, the one it just set: delay 0, the origin of this
\* call, referenced by the polling handle. Every timer that was pending before
\* is cancelled, so none of them fires and no earlier origin survives.
C11_PollSupersedes ==
  [][ (variant = "timeout" /\ log'.op = "poll")
        => timers' = {[id |-> polling', due |-> now,
                       origin |-> log'.pollOrigin]} ]_vars

\* C12: in the selectionchange variant the handler is registered exactly when
\* the listening flag is set; in the timeout variant an onFocusGained while the
\* loop is running schedules no timer, and after an onFocusLost the strategy is
\* inactive, with no timer pending.
C12_FocusBlurOnce ==
  [][ /\ (registered' <=> listening')
      /\ (variant = "timeout" /\ log'.op = "focus" /\ polling # NoTimer)
          => timers' = timers
      /\ (variant = "timeout" /\ log'.op = "blur")
          => (polling' = NoTimer /\ timers' = {}) ]_vars

\* C18: in the timeout variant at most one timer is pending, the polling handle
\* is set exactly when a timer is pending, and every pending timer is the one
\* the handle refers to, whatever the owner does inside a dispatch.
C18_OneTimer ==
  /\ Cardinality(timers) <= 1
  /\ polling # NoTimer <=> timers # {}
  /\ \A t \in timers : t.id = polling

\* C13: the snapshot and the last known selection change only in a handler
\* that ran storeDOMState, and then all five are set at once, to the native
\* selection as it is and to the selection stored. storeDOMState runs only in a
\* readFromDOM that built a selection with the resolved anchor and head, and in
\* a selectionToDOM that wrote the native selection; poll, the focus hooks, a
\* read stopped by its guard and a selectionToDOM that found nothing to write
\* leave them as they are.
C13_SnapshotOwner ==
  [][ /\ (~log'.stored /\ log'.writes = 0) => SnapshotUnchanged
      /\ log'.stored => /\ log'.reads = 1 /\ log'.dispatches = 1
                        /\ log'.disp.anchor = resolvedAnchor(Here)
                        /\ log'.disp.head = resolvedHead(Here)
      /\ (log'.stored \/ log'.writes > 0)
           => /\ lastAnchorNode' = domSel'.anchorNode
              /\ lastAnchorOffset' = domSel'.anchorOffset
              /\ lastHeadNode' = domSel'.focusNode
              /\ lastHeadOffset' = domSel'.focusOffset
              /\ lastSelection' = IF log'.writes > 0 THEN stateSel' ELSE log'.disp
    ]_vars

\* a read stored the selection it built, replacing an older snapshot and an
\* older last known selection
C13_Witness ==
  /\ log.op = "readFromDOM" /\ log.stored /\ log.calls = 0
  /\ lastSelection = log.disp /\ lastSelection # TextSelection(1, 1)
  /\ lastAnchorNode = domSel.anchorNode /\ lastAnchorOffset = domSel.anchorOffset

\* C15: a selectionToDOM on a surface without focus first brings the node
\* selection bookkeeping in line with the selection it is given. Without
\* takeFocus it then returns: no setSelection, native selection, snapshot and
\* last known selection as they were, still no focus. With takeFocus it goes on
\* as on a focused surface, after focusing the surface on gecko only: it returns
\* without a write exactly when the selection equals the last known one and the
\* native selection is unchanged, and otherwise writes and records.
C15_Unfocused ==
  [][ (log'.op = "selectionToDOM" /\ ~hasFocus)
        => /\ lastSelectedViewDesc' = IF stateSel'.type = "node"
                                      THEN DescAt(stateSel'.from) ELSE Null
           /\ selectedDescs' = IF stateSel'.type = "node"
                               THEN {DescAt(stateSel'.from)} ELSE {}
           /\ ~log'.takeFocus
                => /\ log'.writes = 0 /\ domSel' = domSel /\ SnapshotUnchanged
                   /\ ~hasFocus'
           /\ log'.takeFocus
                => /\ hasFocus' = gecko
                   /\ log'.writes = 0
                        <=> (SelEq(stateSel', lastSelection) /\ ~domChanged(Here))
                   /\ log'.writes = 0 => (domSel' = domSel /\ SnapshotUnchanged)
                   /\ log'.writes = 1 => (lastSelection' = stateSel' /\ written')
    ]_vars

\* a selectionToDOM without takeFocus ran on a surface without focus: the node
\* selection is marked, and the selection was neither written nor recorded
C15_Witness ==
  /\ log.op = "selectionToDOM" /\ ~log.takeFocus /\ ~hasFocus /\ log.writes = 0
  /\ stateSel = NodeSelection(3) /\ lastSelectedViewDesc = "hrDesc"
  /\ lastSelection # stateSel

\* C16: a readFromDOM that passes its guard dispatches exactly one selection
\* change, tagged with the origin it was given (untagged for a null origin). It
\* records the selection, before it dispatches, exactly when the anchor and head
\* of the selection it built are the resolved positions; otherwise it dispatches
\* and leaves the snapshot and the last known selection to the owner.
C16_StoreThenDispatch ==
  [][ (log'.reads = 1 /\ hasFocus /\ ~inDOMChange /\ domChanged(Here))
        => /\ log'.dispatches = 1
           /\ log'.tag = log'.origin
           /\ log'.disp = selectionFromDOM(Here)
           /\ log'.stored <=> /\ log'.disp.anchor = resolvedAnchor(Here)
                              /\ log'.disp.head = resolvedHead(Here)
           /\ log'.storedFirst = log'.stored
           /\ (~log'.stored /\ log'.calls = 0) => SnapshotUnchanged
           /\ (log'.stored /\ log'.calls = 0) => lastSelection' = log'.disp
    ]_vars

\* a read with an origin dispatched, tagged, a selection whose head is not the
\* resolved one, and recorded nothing
C16_Witness ==
  /\ log.op = "readFromDOM" /\ log.reads = 1 /\ log.dispatches = 1
  /\ log.origin = "typing" /\ log.tag = "typing"
  /\ ~log.stored /\ log.calls = 0 /\ log.disp.type = "text"
  /\ log.disp # lastSelection /\ domChanged(Here)

\* C17: in the timeout variant poll(origin) reads and dispatches nothing itself;
\* it leaves a 0 ms timer bound to its origin, and a timer that fires on a
\* focused surface calls readFromDOM with the origin it is bound to. The timers
\* the loop sets for itself, 100 ms ahead, are bound to no origin, so an origin
\* reaches readFromDOM only from a poll call, never from the loop.
C17_OriginDelivery ==
  [][ variant = "timeout"
        => /\ log'.op = "poll"
                => /\ log'.reads = 0 /\ log'.dispatches = 0
                   /\ [id |-> polling', due |-> now,
                       origin |-> log'.pollOrigin] \in timers'
           /\ log'.op = "timer"
                => /\ log'.reads = IF hasFocus THEN 1 ELSE 0
                   /\ log'.reads = 1
                        => \E t \in timers : t.due <= now /\ t.origin = log'.origin
           /\ \A t \in timers' \ timers :
                IF t.origin = Null
                THEN log'.op \in {"timer", "focus", "selectionToDOM", "poll"}
                ELSE log'.polls = 1 /\ t.due = now /\ t.origin = log'.pollOrigin
           /\ \A t \in timers' : t.due > now => t.origin = Null
    ]_vars

\* the timer of a poll("typing") fired on a focused surface, readFromDOM
\* dispatched with that origin, and the loop goes on with a timer without origin
C17_Witness ==
  /\ variant = "timeout" /\ log.op = "timer" /\ log.polls = 0
  /\ log.reads = 1 /\ log.origin = "typing"
  /\ log.dispatches = 1 /\ log.tag = "typing"
  /\ timers = {[id |-> polling, due |-> now + PollMs, origin |-> Null]}

\* C19: on a focused surface whose owner applies what is dispatched with
\* selectionToDOM, inside the dispatch or as its next step, the native selection
\* and the snapshot agree once that is done, whether or not readFromDOM had
\* recorded the selection. From a state where they agree, they stay in
\* agreement and no reconciliation, by timer, notification or direct call,
\* dispatches anything, until the native selection is changed from outside.
C19_Quiescence ==
  [][ /\ (log'.dispatches = 1 /\ log'.calls = 1) => ~domChanged(Here)'
      /\ (log.dispatches = 1 /\ log.calls = 0 /\ hasFocus
            /\ log'.op = "selectionToDOM" /\ stateSel' = log.disp)
          => ~domChanged(Here)'
      /\ (~domChanged(Here) /\ log'.op # "native")
          => (~domChanged(Here)' /\ log'.dispatches = 0) ]_vars

\* the timer dispatched a selection that readFromDOM had not recorded, the
\* owner applied it, which wrote it back, and now snapshot and native selection
\* agree
C19_Witness ==
  /\ log.op = "timer" /\ log.dispatches = 1 /\ ~log.stored
  /\ log.calls = 1 /\ log.writes = 1 /\ hasFocus /\ ~domChanged(Here)

\* the pending timers that are bound to an origin
Typed(ts) == {t \in ts : t.origin # Null}

\* C20: the origin of one poll(origin) call is attached to at most one
\* dispatched selection change. In the selectionchange variant no second
\* dispatch carries the origin of the latest poll; in the timeout variant a
\* timer's dispatch that carries an origin uses up one timer bound to an origin,
\* and only a poll call makes another.
C20_OnceOnly ==
  [][ /\ attributed' # "again"
      /\ (variant = "timeout" /\ log'.op = "timer" /\ log'.tag # Null)
          => Cardinality(Typed(timers'))
               <= Cardinality(Typed(timers)) - 1 + log'.polls ]_vars

\* C20, as the code has it: in the timeout variant as above. In the
\* selectionchange variant a notification's dispatch carries the origin of the
\* latest poll exactly when less than 50 ms have passed since that poll, so
\* after a first dispatch with that origin every further one inside the window
\* carries it again, and none outside the window does.
C20_OncePerTimer ==
  [][ /\ (variant = "timeout" /\ log'.op = "timer" /\ log'.tag # Null)
          => Cardinality(Typed(timers'))
               <= Cardinality(Typed(timers)) - 1 + log'.polls
      /\ (log'.op = "selectionchange" /\ log'.dispatches = 1)
          => /\ log'.tag = IF now - originTime < DebounceMs THEN curOrigin ELSE Null
             /\ (attributed # "none" /\ now - originTime < DebounceMs)
                  => /\ log'.tag = curOrigin /\ log'.tag # Null
                     /\ log'.polls = 0 => attributed' = "again"
             /\ (now - originTime >= DebounceMs /\ log'.polls = 0)
                  => attributed' = attributed
    ]_vars

\* a selectionchange notification was dispatched with the origin of a poll that
\* an earlier dispatch had carried already
C20_Witness ==
  /\ variant = "selectionchange" /\ log.op = "selectionchange"
  /\ log.dispatches = 1 /\ log.tag = "typing" /\ attributed = "again"
  /\ now - originTime < DebounceMs

\* C14: verticalMotionLeavesTextblock(dir) answers false when the position it
\* starts from, the selection's start for dir < 0 and its end otherwise, has
\* depth 0. Otherwise it answers true exactly when no box of any element child
\* of the textblock's DOM node lies strictly beyond the cursor: box.bottom <
\* cursor.top for dir < 0, box.top > cursor.bottom for dir > 0. It changes
\* nothing but what the step records of its answer.
C14_Probe ==
  [][ log'.op = "verticalMotion"
        => LET pos == IF log'.dir < 0 THEN stateSel.from ELSE stateSel.to
               cursor == layout.coords[pos]
               beyond(box) == IF log'.dir < 0 THEN box.bottom < cursor.top
                              ELSE box.top > cursor.bottom
           IN /\ log'.leaves
                   = IF Depth(pos) = 0 THEN FALSE
                     ELSE ~ \E k \in 1..Len(layout.children) :
                              /\ layout.children[k].nodeType = ElementNode
                              /\ \E i \in 1..Len(layout.children[k].boxes) :
                                   beyond(layout.children[k].boxes[i])
              /\ UNCHANGED <<variant, gecko, now, inDOMChange, hasFocus, domSel,
                             stateSel, lastAnchorNode, lastAnchorOffset,
                             lastHeadNode, lastHeadOffset, lastSelection,
                             lastSelectedViewDesc, nodeClass, selectedDescs,
                             listening, curOrigin, originTime, registered,
                             polling, timers, written, since, attributed, layout>>
    ]_vars

\* asked about moving down from a cursor on the first line of a paragraph whose
\* second element child has a box below the cursor, the probe answered false,
\* although a text node child in between has none there
C14_Witness ==
  /\ log.op = "verticalMotion" /\ log.dir = 1 /\ ~log.leaves
  /\ stateSel = TextSelection(1, 2)
  /\ layout.coords[2] = [top |-> 0, bottom |-> 0]
  /\ Len(layout.children) = 2
  /\ layout.children[1] = [nodeType |-> 3, boxes |-> <<[top |-> 0, bottom |-> 0]>>]
  /\ layout.children[2].nodeType = ElementNode
  /\ layout.children[2].boxes = <<[top |-> 0, bottom |-> 0], [top |-> 1, bottom |-> 1]>>

====
